---- MODULE Spec2Model ----
(***************************************************************************)
(* Tiered lorebook entry retrieval (EntryRetrievalService).                *)
(*                                                                         *)
(* One service instance is constructed with a provider (or null) and a     *)
(* config.  getRelevantEntries runs in two steps separated by the await    *)
(* on provider.generateResponse: Call (everything up to the await, or the  *)
(* whole call when no request is made) and Respond / Reject (everything    *)
(* after the await).                                                       *)
(*                                                                         *)
(* Text is modelled by its structure.  A backend response is the sequence  *)
(* of its significant fragments in textual order (other text between them  *)
(* matches neither regular expression of the parser):                      *)
(*    [k |-> "frag"]            a bracketed fragment "[...]" that is not   *)
(*                              JSON, e.g. "[NARRATION]"                   *)
(*    [k |-> "array", ids |-> s] a well-formed JSON array of strings       *)
(*    [k |-> "tag", id |-> i]   a match of /ID:([a-zA-Z0-9_-]+)/ whose     *)
(*                              captured group is i                        *)
(* The context block is the sequence of its lines; the empty string is the *)
(* empty sequence.                                                         *)
(***************************************************************************)
EXTENDS Integers, Sequences, FiniteSets, TLC

\* ------------------------------------------------------------------ bounds
MaxEntries == 2
MaxResponseSize == 2
MaxLimit == 1
MaxHistory == 6
MaxThreshold == 2

\* ------------------------------------------------------ program constants
RecentSlice == 5
TurnContentBudget == 300
DefaultRecentEntriesCount == 5
DefaultLlmThreshold == 0

\* ------------------------------------------------------------- data model
EntryIds == <<"e1", "e2", "e3", "e4">>
UnknownId == "zz"

EntryTypes == <<"character", "location", "item", "faction", "concept", "event">>

NoState == [type |-> "none"]
CharacterState(present, disposition) ==
  [type |-> "character", isPresent |-> present, currentDisposition |-> disposition]
LocationState(current) == [type |-> "location", isCurrentLocation |-> current]
ItemState(inInv) == [type |-> "item", inInventory |-> inInv]
FactionState(status) == [type |-> "faction", status |-> status]

Entry(id, type, mode, priority, state) ==
  [id |-> id, type |-> type, injection |-> [mode |-> mode, priority |-> priority],
   state |-> state]

RetrievedEntry(entry, tier, priority, reason) ==
  [entry |-> entry, tier |-> tier, priority |-> priority, matchReason |-> reason]

\* --------------------------------------------------------------- helpers
Range(s) == {s[i] : i \in 1..Len(s)}

Max(a, b) == IF a >= b THEN a ELSE b

SeqsUpTo(S, n) == UNION {[1..k -> S] : k \in 0..n}

\* Array.prototype.slice(0, n) for n >= 0
SliceTo(s, n) == IF Len(s) <= n THEN s ELSE SubSeq(s, 1, n)

\* ------------------------------------------------- getTier1Entries (rules)
\* StateRule that takes a faction of any status
StateRuleAnyFaction(entry) ==
  LET st == entry.state IN
  CASE st.type = "character" /\ st.isPresent ->
         [hit |-> TRUE, priority |-> 95, reason |-> "character present"]
    [] st.type = "location" /\ st.isCurrentLocation ->
         [hit |-> TRUE, priority |-> 100, reason |-> "current location"]
    [] st.type = "item" /\ st.inInventory ->
         [hit |-> TRUE, priority |-> 80, reason |-> "in inventory"]
    [] st.type = "faction" ->
         [hit |-> TRUE, priority |-> 70, reason |-> "faction " \o st.status]
    [] OTHER -> [hit |-> FALSE, priority |-> 0, reason |-> ""]

StateRule(entry) ==
  LET st == entry.state IN
  CASE st.type = "character" /\ st.isPresent ->
         [hit |-> TRUE, priority |-> 95, reason |-> "character present"]
    [] st.type = "location" /\ st.isCurrentLocation ->
         [hit |-> TRUE, priority |-> 100, reason |-> "current location"]
    [] st.type = "item" /\ st.inInventory ->
         [hit |-> TRUE, priority |-> 80, reason |-> "in inventory"]
    [] st.type = "faction" /\ st.status \in {"allied", "hostile"} ->
         [hit |-> TRUE, priority |-> 70,
          reason |-> "faction " \o st.status]
    [] OTHER -> [hit |-> FALSE, priority |-> 0, reason |-> ""]

\* Tier1Record with the state rule's weight assigned instead of Math.max
Tier1RecordLastWins(entry) ==
  LET always == entry.injection.mode = "always"
      rule == StateRule(entry)
  IN [include |-> always \/ rule.hit,
      rec |-> RetrievedEntry(entry, 1,
                             IF rule.hit THEN rule.priority ELSE IF always THEN 100 ELSE 0,
                             IF rule.hit THEN rule.reason ELSE "always inject")]

Tier1Record(entry) ==
  LET always == entry.injection.mode = "always"
      p0 == IF always THEN 100 ELSE 0
      r0 == IF always THEN "always inject" ELSE ""
      rule == StateRule(entry)
  IN [include |-> always \/ rule.hit,
      rec |-> RetrievedEntry(entry, 1,
                             IF rule.hit THEN Max(p0, rule.priority) ELSE p0,
                             IF rule.hit THEN rule.reason ELSE r0)]

RECURSIVE getTier1Entries(_)
getTier1Entries(es) ==
  IF es = <<>> THEN <<>>
  ELSE LET t == Tier1Record(Head(es)) IN
       (IF t.include THEN <<t.rec>> ELSE <<>>) \o getTier1Entries(Tail(es))

IsCandidate(e, tier1Ids) == e.id \notin tier1Ids /\ e.injection.mode # "never"

\* RemainingEntries without the tier1Ids test
RemainingEntriesKeepTier1(es, t1) ==
  SelectSeq(es, LAMBDA e : e.injection.mode # "never")

\* RemainingEntries without the 'never' test
RemainingEntriesKeepNever(es, t1) ==
  LET tier1Ids == {t1[i].entry.id : i \in 1..Len(t1)} IN
  SelectSeq(es, LAMBDA e : e.id \notin tier1Ids)

RemainingEntries(es, t1) ==
  LET tier1Ids == {t1[i].entry.id : i \in 1..Len(t1)} IN
  SelectSeq(es, LAMBDA e : IsCandidate(e, tier1Ids))

\* ------------------------------------- getLLMSelectedEntries (after await)
IsBracket(tok) == tok.k \in {"frag", "array"}

\* response.content.match(/\[[\s\S]*?\]/): the first bracketed fragment, 0 if none
RECURSIVE FirstBracketFrom(_, _)
FirstBracketFrom(tokens, i) ==
  IF i > Len(tokens) THEN 0
  ELSE IF IsBracket(tokens[i]) THEN i
  ELSE FirstBracketFrom(tokens, i + 1)

JsonMatch(tokens) == FirstBracketFrom(tokens, 1)

\* JSON.parse(jsonMatch[0]) mapped to strings; a parse failure leaves []
ParsedArrayIds(tokens) ==
  LET i == JsonMatch(tokens) IN
  IF i # 0 /\ tokens[i].k = "array" THEN tokens[i].ids ELSE <<>>

\* response.content.matchAll(/ID:([a-zA-Z0-9_-]+)/g), captured groups in order
RECURSIVE IdMatches(_)
IdMatches(tokens) ==
  IF tokens = <<>> THEN <<>>
  ELSE (IF Head(tokens).k = "tag" THEN <<Head(tokens).id>> ELSE <<>>)
       \o IdMatches(Tail(tokens))

\* SelectedIds without the id-tag fallback
SelectedIdsArrayOnly(tokens) == ParsedArrayIds(tokens)

\* SelectedIds with the id-tag scan run whatever the array strategy produced
SelectedIdsAlwaysScanning(tokens) == ParsedArrayIds(tokens) \o IdMatches(tokens)

SelectedIds(tokens) ==
  LET parsed == ParsedArrayIds(tokens) IN
  IF Len(parsed) = 0 THEN IdMatches(tokens) ELSE parsed

\* Tier2Record with the base weight alone
Tier2RecordFlat(entry) == RetrievedEntry(entry, 2, 50, "LLM selected")

\* Tier2Record with the record marked as a tier-1 record
Tier2RecordTierOne(entry) ==
  RetrievedEntry(entry, 1, 50 + entry.injection.priority, "LLM selected")

Tier2Record(entry) == RetrievedEntry(entry, 2, 50 + entry.injection.priority, "LLM selected")

RECURSIVE MapTier2(_)
MapTier2(es) ==
  IF es = <<>> THEN <<>> ELSE <<Tier2Record(Head(es))>> \o MapTier2(Tail(es))

\* MapIdsToEntries looping over the ids of the response instead of the entries
MapIdsInResponseOrder(availableEntries, selectedIds) ==
  LET RECURSIVE Found(_)
      Found(ids) ==
        IF ids = <<>> THEN <<>>
        ELSE SelectSeq(availableEntries, LAMBDA e : e.id = Head(ids)) \o Found(Tail(ids))
  IN MapTier2(Found(selectedIds))

MapIdsToEntries(availableEntries, selectedIds) ==
  LET idSet == Range(selectedIds) IN
  MapTier2(SelectSeq(availableEntries, LAMBDA e : e.id \in idSet))

\* ApplyMaxLimit with the limit never applied
ApplyMaxLimitUnlimited(result, maxTier3Entries) == result

ApplyMaxLimit(result, maxTier3Entries) ==
  IF maxTier3Entries > 0 THEN SliceTo(result, maxTier3Entries) ELSE result

\* ParseSelection with the selection ranked by priority before the limit applies
ParseSelectionRanked(availableEntries, tokens, maxTier3Entries) ==
  LET mapped == MapIdsToEntries(availableEntries, SelectedIds(tokens))
      top == CHOOSE i \in 1..Len(mapped) :
               \A j \in 1..Len(mapped) : mapped[j].priority <= mapped[i].priority
  IN IF Len(mapped) = 0 THEN <<>>
     ELSE ApplyMaxLimit(<<mapped[top]>> \o SelectSeq(mapped, LAMBDA r : r # mapped[top]),
                        maxTier3Entries)

ParseSelection(availableEntries, tokens, maxTier3Entries) ==
  ApplyMaxLimit(MapIdsToEntries(availableEntries, SelectedIds(tokens)), maxTier3Entries)

\* ------------------------------------------------ merge: [...].sort(b - a)
\* Array.prototype.sort is stable: insert each record after every record
\* whose priority is not lower.
\* InsertByPriority that places a record before the records of equal priority
RECURSIVE InsertBeforeEqual(_, _)
InsertBeforeEqual(sorted, r) ==
  IF sorted = <<>> THEN <<r>>
  ELSE IF Head(sorted).priority > r.priority
       THEN <<Head(sorted)>> \o InsertBeforeEqual(Tail(sorted), r)
       ELSE <<r>> \o sorted

RECURSIVE InsertByPriority(_, _)
InsertByPriority(sorted, r) ==
  IF sorted = <<>> THEN <<r>>
  ELSE IF Head(sorted).priority >= r.priority
       THEN <<Head(sorted)>> \o InsertByPriority(Tail(sorted), r)
       ELSE <<r>> \o sorted

RECURSIVE SortFrom(_, _)
SortFrom(sorted, rest) ==
  IF rest = <<>> THEN sorted
  ELSE SortFrom(InsertByPriority(sorted, Head(rest)), Tail(rest))

SortByPriority(recs) == SortFrom(<<>>, recs)

\* ------------------------------------------------------- buildContextBlock
SectionLabels == <<"Characters", "Locations", "Items", "Factions", "Lore", "Events">>

Preamble == [kind |-> "preamble"]
Header(label) == [kind |-> "header", label |-> label]

EntryLine(entry) ==
  [kind |-> "entry", id |-> entry.id,
   disposition |-> IF entry.state.type = "character" THEN entry.state.currentDisposition
                   ELSE ""]

RECURSIVE EntryLines(_)
EntryLines(recs) ==
  IF recs = <<>> THEN <<>> ELSE <<EntryLine(Head(recs).entry)>> \o EntryLines(Tail(recs))

\* Section that emits its header also when no entry has the type
SectionAlways(all, i) ==
  <<Header(SectionLabels[i])>>
    \o EntryLines(SelectSeq(all, LAMBDA r : r.entry.type = EntryTypes[i]))

Section(all, i) ==
  LET ofType == SelectSeq(all, LAMBDA r : r.entry.type = EntryTypes[i]) IN
  IF Len(ofType) > 0 THEN <<Header(SectionLabels[i])>> \o EntryLines(ofType) ELSE <<>>

RECURSIVE SectionsFrom(_, _)
SectionsFrom(all, i) ==
  IF i > Len(EntryTypes) THEN <<>> ELSE Section(all, i) \o SectionsFrom(all, i + 1)

\* buildContextBlock without the early return for an empty set
buildContextBlockNoEarlyReturn(t1, t2, t3) ==
  <<Preamble>> \o SectionsFrom(t1 \o t2 \o t3, 1)

\* buildContextBlock grouping the records of all, which is sorted by priority
buildContextBlockByPriority(t1, t2, t3) ==
  LET all == SortByPriority(t1 \o t2 \o t3) IN
  IF Len(all) = 0 THEN <<>> ELSE <<Preamble>> \o SectionsFrom(all, 1)

\* buildContextBlock rendering the mandatory entries alone
buildContextBlockTier1Only(t1, t2, t3) ==
  IF Len(t1) = 0 THEN <<>> ELSE <<Preamble>> \o SectionsFrom(t1, 1)

buildContextBlock(t1, t2, t3) ==
  LET all == t1 \o t2 \o t3 IN
  IF Len(all) = 0 THEN <<>> ELSE <<Preamble>> \o SectionsFrom(all, 1)

EmptyResult ==
  [tier1 |-> <<>>, tier2 |-> <<>>, tier3 |-> <<>>, all |-> <<>>, contextBlock |-> <<>>]

\* BuildResult with the selection filed as tier 3 as well
BuildResultFilingTier3(t1, t2) ==
  LET t3 == [i \in 1..Len(t2) |-> [t2[i] EXCEPT !.tier = 3]] IN
  [tier1 |-> t1, tier2 |-> t2, tier3 |-> t3,
   all |-> SortByPriority(t1 \o t2 \o t3),
   contextBlock |-> buildContextBlock(t1, t2, t3)]

BuildResult(t1, t2) ==
  LET t3 == <<>> IN
  [tier1 |-> t1, tier2 |-> t2, tier3 |-> t3,
   all |-> SortByPriority(t1 \o t2 \o t3),
   contextBlock |-> buildContextBlock(t1, t2, t3)]

\* --------------------------------------- getLLMSelectedEntries (the prompt)
Min(a, b) == IF a <= b THEN a ELSE b

\* Array.prototype.slice(-n) for n > 0
SliceLast(s, n) == IF Len(s) <= n THEN s ELSE SubSeq(s, Len(s) - n + 1, Len(s))

\* a story entry: its type and its content (an identity and a length in characters)
StoryEntry(type, id, length) == [type |-> type, content |-> [id |-> id, length |-> length]]

\* one element of recentContent: the prefix and content.substring(0, 300)
RecentLine(e) ==
  [prefix |-> IF e.type = "user_action" THEN "[ACTION]" ELSE "[NARRATION]",
   content |-> [id |-> e.content.id, length |-> Min(e.content.length, TurnContentBudget)]]

RecentContent(recentStoryEntries, cfg) ==
  LET recent == SliceLast(recentStoryEntries, RecentSlice) IN
  [i \in 1..Len(recent) |-> RecentLine(recent[i])]

\* type.toUpperCase()
UpperCase(type) ==
  CASE type = "character" -> "CHARACTER"
    [] type = "location" -> "LOCATION"
    [] type = "item" -> "ITEM"
    [] type = "faction" -> "FACTION"
    [] type = "concept" -> "CONCEPT"
    [] type = "event" -> "EVENT"

\* one line of entryList: "- ID:<id> | [<TYPE>] ..."
EntryListLine(e) == [id |-> e.id, type |-> UpperCase(e.type)]

\* EntryList with the entries listed last to first
EntryListReversed(availableEntries) ==
  [i \in 1..Len(availableEntries) |->
     EntryListLine(availableEntries[Len(availableEntries) + 1 - i])]

EntryList(availableEntries) ==
  [i \in 1..Len(availableEntries) |-> EntryListLine(availableEntries[i])]

BuildPrompt(availableEntries, userInput, recentStoryEntries, cfg) ==
  [recentContent |-> RecentContent(recentStoryEntries, cfg),
   storyJustStarted |-> Len(recentStoryEntries) = 0,
   userInput |-> userInput,
   entryList |-> EntryList(availableEntries)]

NoPrompt ==
  [recentContent |-> <<>>, storyJustStarted |-> FALSE, userInput |-> "", entryList |-> <<>>]

\* ------------------------------------------------------------ input sets
MaxChapters == 2
MaxMessages == 2

\* the summary of a chapter as created, and the summaries a resummarization returns
CreatedSummary == "s0"
NewSummaries == {"s1", "s2"}

\* a story with some chapters and some messages after the last chapter
Stories ==
  {[messagesSinceLastChapter |-> m, chapters |-> [i \in 1..n |-> CreatedSummary]] :
     m \in 0..MaxMessages, n \in 0..MaxChapters}

Modes == {"always", "auto", "never"}

Template(type, mode, priority, state) ==
  [type |-> type, mode |-> mode, priority |-> priority, state |-> state]

\* Entries as the caller may supply them (without their ids).
Templates ==
  {Template("concept", m, 0, NoState) : m \in Modes}
    \cup {Template("character", m, 0, CharacterState(TRUE, "")) : m \in Modes}
    \cup {Template("concept", "auto", 50, NoState)}

\* Entry ids are unique within a story: the i-th entry gets the i-th id.
WithIds(ts) ==
  [i \in 1..Len(ts) |->
     Entry(EntryIds[i], ts[i].type, ts[i].mode, ts[i].priority, ts[i].state)]

Inputs == {WithIds(ts) : ts \in SeqsUpTo(Templates, MaxEntries)}

\* Entries of every type, each with every state its type can carry.
TypedTemplates ==
  {Template("character", "auto", 0, CharacterState(p, "")) : p \in BOOLEAN}
    \cup {Template("location", "auto", 0, LocationState(c)) : c \in BOOLEAN}
    \cup {Template("item", "auto", 0, ItemState(i)) : i \in BOOLEAN}
    \cup {Template("faction", "auto", 0, FactionState(st)) :
             st \in {"neutral", "allied", "hostile"}}
    \cup {Template("concept", "auto", 0, NoState), Template("event", "auto", 0, NoState),
          Template("event", "always", 0, NoState)}

TypedInputs == {WithIds(ts) : ts \in SeqsUpTo(TypedTemplates, MaxEntries)}

\* Entries whose state carries the tag of another type than the entry's own.
MismatchedTemplates ==
  {Template("character", "auto", 0, LocationState(c)) : c \in BOOLEAN}
    \cup {Template("location", "auto", 0, ItemState(i)) : i \in BOOLEAN}
    \cup {Template("item", "auto", 0, FactionState(st)) : st \in {"neutral", "hostile"}}
    \cup {Template("concept", "auto", 0, CharacterState(p, "")) : p \in BOOLEAN}
    \cup {Template("concept", "auto", 0, NoState)}

MismatchedInputs == {WithIds(ts) : ts \in SeqsUpTo(MismatchedTemplates, MaxEntries)}

\* Entries of one type of which some are mandatory and some are candidates whose
\* injection priority lifts them above the mandatory ones.
RankedTemplates ==
  {Template("character", "auto", 0, CharacterState(TRUE, ""))}
    \cup {Template("character", "auto", p, CharacterState(FALSE, "")) : p \in {0, 50}}
    \cup {Template("faction", "auto", 0, FactionState("hostile")),
          Template("faction", "auto", 50, FactionState("neutral"))}

RankedInputs == {WithIds(ts) : ts \in SeqsUpTo(RankedTemplates, MaxEntries)}

\* A present character, a hostile faction and a lore concept of some priority.
ScenarioPriorities == {0, 20, 21, 45, 46}

Scenario(priority) ==
  <<Entry("c1", "character", "auto", 0, CharacterState(TRUE, "")),
    Entry("f1", "faction", "auto", 0, FactionState("hostile")),
    Entry("x1", "concept", "auto", priority, NoState)>>

\* a mandatory entry and a candidate
PlainTemplates == {Template("concept", m, 0, NoState) : m \in {"always", "auto"}}

PlainInputs == {WithIds(ts) : ts \in SeqsUpTo(PlainTemplates, MaxEntries)}

ResponseIds == {EntryIds[i] : i \in 1..MaxEntries} \cup {UnknownId}

Tokens ==
  {[k |-> "frag"]}
    \cup {[k |-> "array", ids |-> a] : a \in SeqsUpTo(ResponseIds, MaxResponseSize)}
    \cup {[k |-> "tag", id |-> i] : i \in ResponseIds}

\* A response holds at most MaxResponseSize fragments and ids in all.
TokenSize(tok) == IF tok.k = "array" THEN Max(1, Len(tok.ids)) ELSE 1

ResponseSize(tokens) ==
  LET size[i \in 0..Len(tokens)] ==
        IF i = 0 THEN 0 ELSE size[i - 1] + TokenSize(tokens[i])
  IN size[Len(tokens)]

BoundedResponses ==
  {r \in SeqsUpTo(Tokens, MaxResponseSize) : ResponseSize(r) <= MaxResponseSize}

Responses == {r : r \in BoundedResponses}

\* what the backend may answer in the scenario
ScenarioIds == {"c1", "f1", "x1", UnknownId}

ScenarioTokens ==
  {[k |-> "frag"]}
    \cup {[k |-> "array", ids |-> a] : a \in SeqsUpTo(ScenarioIds, MaxResponseSize)}
    \cup {[k |-> "tag", id |-> i] : i \in ScenarioIds}

BoundedScenarioResponses ==
  {r \in SeqsUpTo(ScenarioTokens, MaxResponseSize) : ResponseSize(r) <= MaxResponseSize}

ScenarioResponses == {r : r \in BoundedScenarioResponses}

\* the JSON array that names each id of a set once
IdArray(S) ==
  <<[k |-> "array",
     ids |-> SelectSeq(SubSeq(EntryIds, 1, MaxEntries) \o <<UnknownId>>, LAMBDA i : i \in S)]>>

ArrayResponses == {IdArray(S) : S \in SUBSET ResponseIds}

\* a short selection of responses: nothing, a fragment that is not JSON, one id
BriefResponses ==
  {<<>>, <<[k |-> "frag"]>>}
    \cup {<<[k |-> "array", ids |-> <<i>>]>> : i \in ResponseIds}

\* The story so far: actions and narrations alternate; contents differ in length.
History(n) ==
  [i \in 1..n |->
     StoryEntry(IF i % 2 = 1 THEN "user_action" ELSE "narration", i,
                IF i % 3 = 0 THEN 450 ELSE 120)]

Histories == {History(n) : n \in 0..MaxHistory}

StoryStart == History(0)

UserInputs == {"open the door"}

RecentEntriesCounts == {2, DefaultRecentEntriesCount, 7}

Configs ==
  [llmThreshold : 0..MaxThreshold,
   maxTier3Entries : 0..MaxLimit,
   enableLLMSelection : BOOLEAN,
   recentEntriesCount : RecentEntriesCounts,
   tier3Model : {"x-ai/grok-4.1-fast"},
   alwaysUseLLM : BOOLEAN]

\* DEFAULT_ENTRY_RETRIEVAL_CONFIG with enableLLMSelection and maxTier3Entries overridden
DefaultedConfigs ==
  {c \in Configs : /\ c.llmThreshold = DefaultLlmThreshold
                   /\ c.recentEntriesCount = DefaultRecentEntriesCount
                   /\ c.alwaysUseLLM}

\* ------------------------------------------------------------------ state
VARIABLES
  provider,          \* TRUE: an OpenRouterProvider, FALSE: null
  config,            \* this.config
  pc,                \* "idle" | "awaiting" | "done" | "threw"
  entries,           \* argument of the call
  tier1,             \* local of getRelevantEntries, live across the await
  remainingEntries,  \* local of getRelevantEntries, live across the await
  requests,          \* number of provider.generateResponse calls made
  response,          \* outcome of the backend call
  result,            \* value the call resolved with
  recentStoryEntries, \* argument of the call
  prompt,            \* the prompt of the request made
  calls,             \* two invocations in flight on the one instance, each with its locals
  ui,                \* the ui store of the memory panel
  story,             \* the story store of the memory panel
  run                \* the handler of the memory panel in flight, if any

vars ==
  <<provider, config, pc, entries, tier1, remainingEntries, requests, response, result,
    recentStoryEntries, prompt, calls, ui, story, run>>

\* the variables of the entry retrieval service
retrievalVars ==
  <<provider, config, pc, entries, tier1, remainingEntries, requests, response, result,
    recentStoryEntries, prompt, calls>>

NoResponse == [kind |-> "none", tokens |-> <<>>]
Rejected == [kind |-> "rejected", tokens |-> <<>>]
Content(tokens) == [kind |-> "content", tokens |-> tokens]

CallIds == {1, 2}

\* the memory panel before any interaction
ClosedUi ==
  [memoryLoading |-> FALSE, manualChapterModalOpen |-> FALSE,
   resummarizeModalOpen |-> FALSE, resummarizeChapterId |-> 0]

NewStory == [messagesSinceLastChapter |-> 0, chapters |-> <<>>]

NoRun == [pc |-> "idle", arg |-> 0, newSummary |-> "", outcome |-> "none"]

IdleCall ==
  [pc |-> "idle", entries |-> <<>>, tier1 |-> <<>>, remainingEntries |-> <<>>,
   response |-> NoResponse, result |-> EmptyResult]

\* new EntryRetrievalService(provider, config)
InitWith(configs) ==
  /\ provider \in BOOLEAN
  /\ config \in configs
  /\ pc = "idle"
  /\ entries = <<>>
  /\ tier1 = <<>>
  /\ remainingEntries = <<>>
  /\ requests = 0
  /\ response = NoResponse
  /\ result = EmptyResult
  /\ recentStoryEntries = <<>>
  /\ prompt = NoPrompt
  /\ calls = [c \in CallIds |-> IdleCall]
  /\ ui = ClosedUi
  /\ story = NewStory
  /\ run = NoRun

Init == InitWith(DefaultedConfigs)

\* CallsBackend without the enableLLMSelection test
CallsBackendIgnoringFlag(cfg, prov, remaining) ==
  Len(remaining) > 0 /\ prov

\* CallsBackend with the candidate count compared to llmThreshold
CallsBackendAboveThreshold(cfg, prov, remaining) ==
  /\ cfg.enableLLMSelection /\ Len(remaining) > 0 /\ prov
  /\ Len(remaining) >= cfg.llmThreshold

\* the condition guarding the call of getLLMSelectedEntries and its own guard
CallsBackend(cfg, prov, remaining) ==
  /\ cfg.enableLLMSelection /\ Len(remaining) > 0 /\ prov
  /\ ~(~prov \/ Len(remaining) = 0)

\* getRelevantEntries up to the await (or to the return when nothing is awaited)
Call(es, userInput, history) ==
  /\ pc = "idle"
  /\ entries' = es
  /\ recentStoryEntries' = history
  /\ UNCHANGED <<provider, config, response, calls, ui, story, run>>
  /\ IF Len(es) = 0
     THEN /\ result' = EmptyResult
          /\ pc' = "done"
          /\ UNCHANGED <<tier1, remainingEntries, requests, prompt>>
     ELSE LET t1 == getTier1Entries(es)
              remaining == RemainingEntries(es, t1)
          IN /\ tier1' = t1
             /\ remainingEntries' = remaining
             /\ IF CallsBackend(config, provider, remaining)
                THEN /\ prompt' = BuildPrompt(remaining, userInput, history, config)
                     /\ requests' = requests + 1
                     /\ pc' = "awaiting"
                     /\ UNCHANGED result
                ELSE /\ result' = BuildResult(t1, <<>>)
                     /\ pc' = "done"
                     /\ UNCHANGED <<requests, prompt>>

\* provider.generateResponse resolves: parse, map, limit, then merge and format
Respond(tokens) ==
  /\ pc = "awaiting"
  /\ response' = Content(tokens)
  /\ result' = BuildResult(tier1, ParseSelection(remainingEntries, tokens, config.maxTier3Entries))
  /\ pc' = "done"
  /\ UNCHANGED <<provider, config, entries, tier1, remainingEntries, requests,
                 recentStoryEntries, prompt, calls, ui, story, run>>

\* OnBackendFailure without the try/catch: the rejection reaches the caller
OnBackendFailureUncaught(t1) == [pc |-> "threw", result |-> EmptyResult]

\* what getLLMSelectedEntries does when generateResponse rejects or throws
OnBackendFailure(t1) == [pc |-> "done", result |-> BuildResult(t1, <<>>)]

Reject ==
  /\ pc = "awaiting"
  /\ response' = Rejected
  /\ result' = OnBackendFailure(tier1).result
  /\ pc' = OnBackendFailure(tier1).pc
  /\ UNCHANGED <<provider, config, entries, tier1, remainingEntries, requests,
                 recentStoryEntries, prompt, calls, ui, story, run>>

\* a caller invokes getRelevantEntries
Invoke ==
  pc = "idle" /\ \E es \in Inputs, userInput \in UserInputs : Call(es, userInput, StoryStart)

\* the backend answers with some text
Resolve == pc = "awaiting" /\ \E tokens \in Responses : Respond(tokens)

Next ==
  \/ Invoke
  \/ Resolve
  \/ Reject

Spec == Init /\ [][Next]_vars

\* ------------------------------------------------------------------------
\* The service called with entries of every type and state; the backend answers
\* with a JSON array of ids.
InvokeTyped ==
  pc = "idle" /\ \E es \in TypedInputs, userInput \in UserInputs :
                   Call(es, userInput, StoryStart)

ResolveWithArray == pc = "awaiting" /\ \E tokens \in ArrayResponses : Respond(tokens)

NextTyped ==
  \/ InvokeTyped
  \/ ResolveWithArray
  \/ Reject

SpecTyped == Init /\ [][NextTyped]_vars

\* ------------------------------------------------------------------------
\* The service called with the scene of a present character, a hostile faction
\* and a lore concept.
InvokeScenario ==
  pc = "idle" /\ \E priority \in ScenarioPriorities, userInput \in UserInputs :
                   Call(Scenario(priority), userInput, StoryStart)

ResolveScenario == pc = "awaiting" /\ \E tokens \in ScenarioResponses : Respond(tokens)

NextScenario ==
  \/ InvokeScenario
  \/ ResolveScenario
  \/ Reject

SpecScenario == Init /\ [][NextScenario]_vars

\* ------------------------------------------------------------------------
\* The service called with entries whose state does not fit their type.
InvokeMismatched ==
  pc = "idle" /\ \E es \in MismatchedInputs, userInput \in UserInputs :
                   Call(es, userInput, StoryStart)

NextMismatched ==
  \/ InvokeMismatched
  \/ ResolveWithArray
  \/ Reject

SpecMismatched == Init /\ [][NextMismatched]_vars

\* ------------------------------------------------------------------------
\* The service called with mandatory entries and candidates of the same type.
InvokeRanked ==
  pc = "idle" /\ \E es \in RankedInputs, userInput \in UserInputs :
                   Call(es, userInput, StoryStart)

NextRanked ==
  \/ InvokeRanked
  \/ ResolveWithArray
  \/ Reject

SpecRanked == Init /\ [][NextRanked]_vars

\* ------------------------------------------------------------------------
\* The service under every config, called at any point of a story.
InitConfigured == InitWith(Configs)

InvokeInStory ==
  pc = "idle" /\ \E es \in PlainInputs, userInput \in UserInputs, history \in Histories :
                   Call(es, userInput, history)

ResolveBriefly == pc = "awaiting" /\ \E tokens \in BriefResponses : Respond(tokens)

NextConfigured ==
  \/ InvokeInStory
  \/ ResolveBriefly
  \/ Reject

SpecConfigured == InitConfigured /\ [][NextConfigured]_vars

\* ------------------------------------------------------------------------
\* Two invocations of getRelevantEntries on one instance, interleaving at the await.
OtherCall(c) == 3 - c

\* LocalsOf with tier1 and remainingEntries kept in fields of the instance that
\* every invocation assigns: a resumed call finds what the other call stored
LocalsOfInstance(cs, c) ==
  IF cs[OtherCall(c)].pc # "idle"
  THEN [tier1 |-> cs[OtherCall(c)].tier1,
        remainingEntries |-> cs[OtherCall(c)].remainingEntries]
  ELSE [tier1 |-> cs[c].tier1, remainingEntries |-> cs[c].remainingEntries]

\* tier1 and remainingEntries are consts of the invocation: the continuation after
\* the await reads the values its own invocation computed
LocalsOf(cs, c) ==
  [tier1 |-> cs[c].tier1, remainingEntries |-> cs[c].remainingEntries]

\* getRelevantEntries of invocation c up to the await (or to its return)
CallOf(c, es) ==
  /\ calls[c].pc = "idle"
  /\ LET t1 == getTier1Entries(es)
         remaining == RemainingEntries(es, t1)
     IN calls' =
          [calls EXCEPT ![c] =
             IF Len(es) = 0
             THEN [@ EXCEPT !.pc = "done", !.entries = es, !.result = EmptyResult]
             ELSE IF CallsBackend(config, provider, remaining)
             THEN [@ EXCEPT !.pc = "awaiting", !.entries = es, !.tier1 = t1,
                            !.remainingEntries = remaining]
             ELSE [@ EXCEPT !.pc = "done", !.entries = es, !.tier1 = t1,
                            !.remainingEntries = remaining,
                            !.result = BuildResult(t1, <<>>)]]
  /\ UNCHANGED <<provider, config, pc, entries, tier1, remainingEntries, requests,
                 response, result, recentStoryEntries, prompt, ui, story, run>>

\* the backend call of invocation c resolves
RespondOf(c, tokens) ==
  /\ calls[c].pc = "awaiting"
  /\ LET mine == LocalsOf(calls, c)
     IN calls' =
          [calls EXCEPT ![c] =
             [@ EXCEPT !.pc = "done", !.response = Content(tokens),
                       !.result = BuildResult(mine.tier1,
                                    ParseSelection(mine.remainingEntries, tokens,
                                                   config.maxTier3Entries))]]
  /\ UNCHANGED <<provider, config, pc, entries, tier1, remainingEntries, requests,
                 response, result, recentStoryEntries, prompt, ui, story, run>>

\* the backend call of invocation c rejects
RejectOf(c) ==
  /\ calls[c].pc = "awaiting"
  /\ LET mine == LocalsOf(calls, c)
     IN calls' =
          [calls EXCEPT ![c] =
             [@ EXCEPT !.pc = OnBackendFailure(mine.tier1).pc, !.response = Rejected,
                       !.result = OnBackendFailure(mine.tier1).result]]
  /\ UNCHANGED <<provider, config, pc, entries, tier1, remainingEntries, requests,
                 response, result, recentStoryEntries, prompt, ui, story, run>>

InvokeConcurrently == \E c \in CallIds, es \in PlainInputs : CallOf(c, es)

ResolveConcurrently == \E c \in CallIds, tokens \in BriefResponses : RespondOf(c, tokens)

RejectConcurrently == \E c \in CallIds : RejectOf(c)

NextConcurrent ==
  \/ InvokeConcurrently
  \/ ResolveConcurrently
  \/ RejectConcurrently

SpecConcurrent == Init /\ [][NextConcurrent]_vars

\* ------------------------------------------------------------------------
\* The memory panel: the handlers of its two modals.
InitPanel ==
  /\ provider = FALSE
  /\ config \in {c \in DefaultedConfigs : ~c.enableLLMSelection /\ c.maxTier3Entries = 0}
  /\ pc = "idle"
  /\ entries = <<>>
  /\ tier1 = <<>>
  /\ remainingEntries = <<>>
  /\ requests = 0
  /\ response = NoResponse
  /\ result = EmptyResult
  /\ recentStoryEntries = <<>>
  /\ prompt = NoPrompt
  /\ calls = [c \in CallIds |-> IdleCall]
  /\ ui = ClosedUi
  /\ story \in Stories
  /\ run = NoRun

NoModalOpen == ~ui.manualChapterModalOpen /\ ~ui.resummarizeModalOpen

\* Finally with the reset of memoryLoading left out
FinallySkipped(u) == u

\* finally { ui.setMemoryLoading(false) }
Finally(u) == [u EXCEPT !.memoryLoading = FALSE]

\* the "Create Chapter Now" button
OpenManualChapterModal ==
  /\ ~ui.memoryLoading /\ story.messagesSinceLastChapter # 0
  /\ NoModalOpen
  /\ ui' = [ui EXCEPT !.manualChapterModalOpen = TRUE]
  /\ UNCHANGED <<story, run>>
  /\ UNCHANGED retrievalVars

\* onClose of the manual chapter modal
CloseManualChapterModal ==
  /\ ui.manualChapterModalOpen /\ ~ui.memoryLoading
  /\ ui' = [ui EXCEPT !.manualChapterModalOpen = FALSE]
  /\ UNCHANGED <<story, run>>
  /\ UNCHANGED retrievalVars

\* handleCreateManualChapter up to the await
handleCreateManualChapter(endEntryIndex) ==
  /\ ui.manualChapterModalOpen /\ ~ui.memoryLoading /\ run.pc = "idle"
  /\ ui' = [ui EXCEPT !.memoryLoading = TRUE]
  /\ run' = [pc |-> "creating", arg |-> endEntryIndex, newSummary |-> "", outcome |-> "none"]
  /\ UNCHANGED story
  /\ UNCHANGED retrievalVars

\* story.createManualChapter resolves
CreateResolves ==
  /\ run.pc = "creating"
  /\ story' = [messagesSinceLastChapter |-> story.messagesSinceLastChapter - run.arg,
               chapters |-> Append(story.chapters, CreatedSummary)]
  /\ ui' = Finally([ui EXCEPT !.manualChapterModalOpen = FALSE])
  /\ run' = [NoRun EXCEPT !.outcome = "created"]
  /\ UNCHANGED retrievalVars

\* story.createManualChapter rejects: the finally block runs, the error leaves the handler
CreateThrows ==
  /\ run.pc = "creating"
  /\ ui' = Finally(ui)
  /\ run' = [NoRun EXCEPT !.outcome = "threw"]
  /\ UNCHANGED story
  /\ UNCHANGED retrievalVars

\* handleResummarize, from the button of a chapter card
handleResummarize(chapter) ==
  /\ ~ui.memoryLoading
  /\ NoModalOpen
  /\ ui' = [ui EXCEPT !.resummarizeModalOpen = TRUE, !.resummarizeChapterId = chapter]
  /\ UNCHANGED <<story, run>>
  /\ UNCHANGED retrievalVars

\* onClose of the resummarize modal
CloseResummarizeModal ==
  /\ ui.resummarizeModalOpen /\ ~ui.memoryLoading
  /\ ui' = [ui EXCEPT !.resummarizeModalOpen = FALSE, !.resummarizeChapterId = 0]
  /\ UNCHANGED <<story, run>>
  /\ UNCHANGED retrievalVars

\* confirmResummarize up to the first await
confirmResummarize ==
  /\ ui.resummarizeModalOpen /\ ~ui.memoryLoading /\ run.pc = "idle"
  /\ IF ui.resummarizeChapterId = 0 \/ ui.resummarizeChapterId \notin 1..Len(story.chapters)
     THEN UNCHANGED <<ui, run>>
     ELSE /\ ui' = [ui EXCEPT !.memoryLoading = TRUE]
          /\ run' = [pc |-> "resummarizing", arg |-> ui.resummarizeChapterId,
                     newSummary |-> "", outcome |-> "none"]
  /\ UNCHANGED story
  /\ UNCHANGED retrievalVars

\* aiService.resummarizeChapter resolves
ResummarizeResolves(newSummary) ==
  /\ run.pc = "resummarizing"
  /\ run' = [run EXCEPT !.pc = "updating", !.newSummary = newSummary]
  /\ UNCHANGED <<ui, story>>
  /\ UNCHANGED retrievalVars

\* aiService.resummarizeChapter rejects: catch, then finally
ResummarizeThrows ==
  /\ run.pc = "resummarizing"
  /\ ui' = Finally(ui)
  /\ run' = [NoRun EXCEPT !.outcome = "failed"]
  /\ UNCHANGED story
  /\ UNCHANGED retrievalVars

\* story.updateChapter resolves
UpdateResolves ==
  /\ run.pc = "updating"
  /\ story' = [story EXCEPT !.chapters[run.arg] = run.newSummary]
  /\ ui' = Finally([ui EXCEPT !.resummarizeModalOpen = FALSE, !.resummarizeChapterId = 0])
  /\ run' = [NoRun EXCEPT !.outcome = "resummarized"]
  /\ UNCHANGED retrievalVars

\* story.updateChapter rejects: catch, then finally
UpdateThrows ==
  /\ run.pc = "updating"
  /\ ui' = Finally(ui)
  /\ run' = [NoRun EXCEPT !.outcome = "update failed"]
  /\ UNCHANGED story
  /\ UNCHANGED retrievalVars

ConfirmManualChapter ==
  \E endEntryIndex \in 1..story.messagesSinceLastChapter :
    handleCreateManualChapter(endEntryIndex)

ClickResummarize == \E chapter \in 1..Len(story.chapters) : handleResummarize(chapter)

ResummarizeReturns == \E newSummary \in NewSummaries : ResummarizeResolves(newSummary)

\* the awaited createManualChapter settles
CreateSettles == CreateResolves \/ CreateThrows

\* the awaited resummarizeChapter or updateChapter settles
ResummarizeSettles ==
  ResummarizeReturns \/ ResummarizeThrows \/ UpdateResolves \/ UpdateThrows

NextPanel ==
  \/ OpenManualChapterModal
  \/ CloseManualChapterModal
  \/ ConfirmManualChapter
  \/ CreateResolves
  \/ CreateThrows
  \/ ClickResummarize
  \/ CloseResummarizeModal
  \/ confirmResummarize
  \/ ResummarizeReturns
  \/ ResummarizeThrows
  \/ UpdateResolves
  \/ UpdateThrows

SpecPanel == InitPanel /\ [][NextPanel]_vars

\* every awaited promise settles
SpecPanelFair ==
  SpecPanel /\ WF_vars(CreateSettles) /\ WF_vars(ResummarizeSettles)

\* ============================================================ properties
Done == pc = "done"

IdsOf(recs) == {recs[i].entry.id : i \in 1..Len(recs)}

EntriesOf(recs) == [i \in 1..Len(recs) |-> recs[i].entry]

HasLine(block, id) ==
  \E i \in 1..Len(block) : block[i].kind = "entry" /\ block[i].id = id

HasContent == response.kind = "content"

\* the entries the caller passed that are neither in tier1 nor 'never'
CandidatesOfCall ==
  SelectSeq(entries, LAMBDA e : e.id \notin IdsOf(tier1) /\ e.injection.mode # "never")

\* C1: an entry whose injection mode is 'never' is in no tier of the result, not
\* in all, and has no line in the context block, whatever state it carries.
C1_NeverExcluded ==
  Done =>
    \A i \in 1..Len(entries) :
      entries[i].injection.mode = "never" =>
        /\ entries[i].id \notin IdsOf(result.tier1)
        /\ entries[i].id \notin IdsOf(result.tier2)
        /\ entries[i].id \notin IdsOf(result.all)
        /\ ~HasLine(result.contextBlock, entries[i].id)

\* C2: every 'always' entry is in tier1 with priority exactly 100, whatever the
\* config and provider and however the backend call ended.
C2_AlwaysInTier1 ==
  Done =>
    \A i \in 1..Len(entries) :
      entries[i].injection.mode = "always" =>
        \E j \in 1..Len(result.tier1) :
          /\ result.tier1[j].entry = entries[i]
          /\ result.tier1[j].tier = 1
          /\ result.tier1[j].priority = 100

C2_Witness ==
  /\ Done
  /\ response.kind = "rejected"
  /\ \E i \in 1..Len(entries) :
       entries[i].injection.mode = "always" /\ entries[i].state.type = "character"

\* C3: when the backend call rejects, the call still resolves: tier2 is empty,
\* tier1 is what the rules give for the input, all and the block hold tier1 only.
C3_RejectDegrades ==
  response.kind = "rejected" =>
    /\ pc = "done"
    /\ result.tier2 = <<>>
    /\ result.tier3 = <<>>
    /\ result.tier1 = getTier1Entries(entries)
    /\ IdsOf(result.all) = IdsOf(result.tier1)
    /\ \A i \in 1..Len(entries) :
         HasLine(result.contextBlock, entries[i].id) <=> entries[i].id \in IdsOf(result.tier1)

C3_Witness ==
  /\ response.kind = "rejected"
  /\ Len(result.tier1) > 0
  /\ Len(remainingEntries) > 0
  /\ requests = 1

\* C4: no entry id is both in tier1 and in tier2.
C4_TiersDisjoint ==
  Done => IdsOf(result.tier1) \cap IdsOf(result.tier2) = {}

C4_Witness ==
  /\ Done
  /\ HasContent
  /\ Range(SelectedIds(response.tokens)) \cap IdsOf(result.tier1) # {}
  /\ Len(result.tier2) > 0

\* C5: every tier-2 entry is a candidate handed to the selector (an input entry
\* that is not 'never' and not in tier1); other ids in the response produce no
\* tier-2 record and no failure.
C5_Tier2FromCandidates ==
  /\ pc # "threw"
  /\ Done =>
       \A j \in 1..Len(result.tier2) :
         /\ result.tier2[j].entry \in Range(remainingEntries)
         /\ result.tier2[j].entry \in Range(entries)
         /\ result.tier2[j].entry.injection.mode # "never"
         /\ result.tier2[j].entry.id \notin IdsOf(result.tier1)

C5_Witness ==
  /\ Done
  /\ HasContent
  /\ \E i \in 1..Len(entries) :
       /\ entries[i].injection.mode = "never"
       /\ entries[i].id \notin IdsOf(result.tier1)
       /\ entries[i].id \in Range(SelectedIds(response.tokens))
  /\ UnknownId \in Range(SelectedIds(response.tokens))

\* C6: with selection disabled, or no provider, or no candidate, no request is
\* made and tier2 is empty, while tier1 and the block come from the rules; an
\* empty input gives the all-empty result.
C6_NoCallWithoutSelector ==
  (pc # "idle" /\ (~config.enableLLMSelection \/ ~provider \/ Len(CandidatesOfCall) = 0)) =>
    /\ requests = 0
    /\ pc = "done"
    /\ response.kind = "none"
    /\ result.tier2 = <<>>
    /\ result.tier1 = getTier1Entries(entries)
    /\ result.contextBlock = buildContextBlock(result.tier1, <<>>, <<>>)
    /\ (entries = <<>> => result = EmptyResult)

C6_Witness ==
  /\ Done
  /\ ~config.enableLLMSelection
  /\ provider
  /\ Len(CandidatesOfCall) > 0
  /\ Len(result.tier1) > 0

\* ids captured by the id-tag pattern anywhere in the response
TaggedIds(tokens) == {tokens[i].id : i \in {j \in 1..Len(tokens) : tokens[j].k = "tag"}}

\* the response as a whole is a JSON document: nothing but one array
IsJsonDocument(tokens) == Len(tokens) = 1 /\ tokens[1].k = "array"

\* the first bracketed fragment of the response is a non-empty JSON array
FirstBracketIsNonEmptyArray(tokens) ==
  \E i \in 1..Len(tokens) :
    /\ tokens[i].k = "array"
    /\ tokens[i].ids # <<>>
    /\ \A j \in 1..(i - 1) : tokens[j].k = "tag"

TaggedCandidates ==
  SelectSeq(CandidatesOfCall, LAMBDA e : e.id \in TaggedIds(response.tokens))

\* C7 (as stated): when the response is not valid JSON, every candidate whose id
\* appears in an ID:<id> tag of the response is in tier2.
C7_TagsRecovered ==
  (Done /\ HasContent /\ ~IsJsonDocument(response.tokens)) =>
    \A i \in 1..Len(TaggedCandidates) : TaggedCandidates[i] \in Range(EntriesOf(result.tier2))

\* C7 (amended): when the first bracketed fragment of the response is missing,
\* is not JSON or is the empty array, the tier-2 entries are the candidates whose
\* id is captured by an ID:<id> match, in candidate order: all of them when
\* maxTier3Entries is 0, the first maxTier3Entries of them otherwise.
C7_TagsRecoveredUpToLimit ==
  (Done /\ HasContent /\ ~FirstBracketIsNonEmptyArray(response.tokens)) =>
    EntriesOf(result.tier2) =
      IF config.maxTier3Entries > 0
      THEN SliceTo(TaggedCandidates, config.maxTier3Entries)
      ELSE TaggedCandidates

C7_Witness ==
  /\ Done
  /\ HasContent
  /\ Len(response.tokens) = 2
  /\ response.tokens[1].k = "frag"
  /\ Len(TaggedCandidates) > 0
  /\ EntriesOf(result.tier2) = TaggedCandidates

\* the candidates the response selects: named by the array the parser used, or
\* by the id tags when it used none
SelectedCandidates ==
  SelectSeq(CandidatesOfCall,
            LAMBDA e : e.id \in (IF FirstBracketIsNonEmptyArray(response.tokens)
                                 THEN Range(response.tokens[JsonMatch(response.tokens)].ids)
                                 ELSE TaggedIds(response.tokens)))

\* C8: with maxTier3Entries = N > 0 and M > N selected candidates tier2 has
\* exactly N entries; with maxTier3Entries = 0 it has all M.
C8_Truncation ==
  (Done /\ HasContent) =>
    /\ (config.maxTier3Entries > 0 /\ Len(SelectedCandidates) > config.maxTier3Entries)
         => Len(result.tier2) = config.maxTier3Entries
    /\ config.maxTier3Entries = 0 => EntriesOf(result.tier2) = SelectedCandidates

C8_Witness ==
  /\ Done
  /\ HasContent
  /\ config.maxTier3Entries > 0
  /\ Len(SelectedCandidates) > config.maxTier3Entries
  /\ Len(result.tier2) = config.maxTier3Entries

PositionIn(s, x) == CHOOSE i \in 1..Len(s) : s[i] = x

TiersInOrder == result.tier1 \o result.tier2 \o result.tier3

\* C9: all is a permutation of tier1 ++ tier2 ++ tier3 in non-increasing
\* priority, records of equal priority keeping their order in that concatenation.
C9_AllStablySorted ==
  Done =>
    /\ Len(result.all) = Len(TiersInOrder)
    /\ Range(result.all) = Range(TiersInOrder)
    /\ \A i, j \in 1..Len(result.all) :
         i < j =>
           /\ result.all[i].priority >= result.all[j].priority
           /\ result.all[i].priority = result.all[j].priority =>
                PositionIn(TiersInOrder, result.all[i]) < PositionIn(TiersInOrder, result.all[j])

C9_Witness ==
  /\ Done
  /\ Len(result.tier1) > 0
  /\ Len(result.tier2) > 0
  /\ result.all # TiersInOrder

\* C10: the context block is empty exactly when all three tiers are empty;
\* otherwise it is the preamble followed by at least one subsection.
C10_BlockEmptyIffNothingRetrieved ==
  Done =>
    /\ result.contextBlock = <<>> <=> Len(TiersInOrder) = 0
    /\ result.contextBlock # <<>> =>
         /\ Len(result.contextBlock) >= 3
         /\ result.contextBlock[1] = Preamble
         /\ result.contextBlock[2].kind = "header"
         /\ result.contextBlock[3].kind = "entry"

C10_Witness ==
  /\ Done
  /\ HasContent
  /\ Len(entries) > 0
  /\ Len(TiersInOrder) = 0
  /\ result.contextBlock = <<>>

\* the turns of the call's history whose content the prompt shows, in order
TurnsInPrompt == [i \in 1..Len(prompt.recentContent) |-> prompt.recentContent[i].content.id]

TurnsOf(history) == [i \in 1..Len(history) |-> history[i].content.id]

\* C14: the prompt shows exactly the last min(recentEntriesCount, n) turns of the
\* n turns of history passed to the call.
C14_PromptShowsConfiguredWindow ==
  requests = 1 =>
    TurnsInPrompt =
      TurnsOf(SliceLast(recentStoryEntries,
                        Min(config.recentEntriesCount, Len(recentStoryEntries))))

\* C15: with alwaysUseLLM false and fewer candidates than llmThreshold no request
\* is made and tier2 is empty.
C15_ThresholdGatesSelection ==
  (pc # "idle" /\ ~config.alwaysUseLLM /\ Len(CandidatesOfCall) < config.llmThreshold) =>
    /\ requests = 0
    /\ pc = "done"
    /\ result.tier2 = <<>>

\* the section labels in the order of the block, by entry type
LabelledTypes ==
  <<[type |-> "character", label |-> "Characters"], [type |-> "location", label |-> "Locations"],
    [type |-> "item", label |-> "Items"], [type |-> "faction", label |-> "Factions"],
    [type |-> "concept", label |-> "Lore"], [type |-> "event", label |-> "Events"]>>

HeadersOf(block) ==
  LET hs == SelectSeq(block, LAMBDA l : l.kind = "header") IN
  [i \in 1..Len(hs) |-> hs[i].label]

TypesRetrieved == {result.all[i].entry.type : i \in 1..Len(result.all)}

ExpectedHeaders ==
  LET present == SelectSeq(LabelledTypes, LAMBDA t : t.type \in TypesRetrieved) IN
  [i \in 1..Len(present) |-> present[i].label]

TypeRank(type) == CHOOSE i \in 1..Len(LabelledTypes) : LabelledTypes[i].type = type

\* C11: the subsections of a non-empty block are those of the types that have a
\* retrieved entry, in the order Characters, Locations, Items, Factions, Lore,
\* Events, whatever the order and priority of the retrieved entries.
C11_SectionsInTypeOrder ==
  (Done /\ result.contextBlock # <<>>) => HeadersOf(result.contextBlock) = ExpectedHeaders

C11_Witness ==
  /\ Done
  /\ Len(result.all) = 2
  /\ result.all[1].priority > result.all[2].priority
  /\ TypeRank(result.all[1].entry.type) > TypeRank(result.all[2].entry.type)
  /\ Len(HeadersOf(result.contextBlock)) = 2

\* the rule an 'auto' entry's state satisfies, if any
ExpectedRule(st) ==
  CASE st.type = "location" /\ st.isCurrentLocation -> <<100, "current location">>
    [] st.type = "character" /\ st.isPresent -> <<95, "character present">>
    [] st.type = "item" /\ st.inInventory -> <<80, "in inventory">>
    [] st.type = "faction" /\ st.status = "allied" -> <<70, "faction allied">>
    [] st.type = "faction" /\ st.status = "hostile" -> <<70, "faction hostile">>
    [] OTHER -> <<0, "none">>

\* C18: an 'auto' entry is in tier1 exactly when its state satisfies a rule, with
\* that rule's weight and reason: current location 100, present character 95,
\* inventory item 80, allied or hostile faction 70.
C18_AutoEntriesFollowStateRules ==
  Done =>
    \A i \in 1..Len(entries) :
      entries[i].injection.mode = "auto" =>
        LET rule == ExpectedRule(entries[i].state) IN
        IF rule[1] = 0
        THEN entries[i].id \notin IdsOf(result.tier1)
        ELSE \E j \in 1..Len(result.tier1) :
               /\ result.tier1[j].entry = entries[i]
               /\ result.tier1[j].priority = rule[1]
               /\ result.tier1[j].matchReason = rule[2]

C18_Witness ==
  /\ Done
  /\ Len(entries) = 2
  /\ entries[1].state = FactionState("neutral")
  /\ entries[2].state = FactionState("hostile")
  /\ IdsOf(result.tier1) = {entries[2].id}

\* the scenario was run and the backend answered ["x1"]
ScenarioAnswered ==
  /\ Done
  /\ \E priority \in ScenarioPriorities : entries = Scenario(priority)
  /\ response = Content(<<[k |-> "array", ids |-> <<"x1">>]>>)

IdsInOrder(recs) == [i \in 1..Len(recs) |-> recs[i].entry.id]

PrioritiesInOrder(recs) == [i \in 1..Len(recs) |-> recs[i].priority]

ScenarioTiers ==
  /\ IdsInOrder(result.tier1) = <<"c1", "f1">>
  /\ PrioritiesInOrder(result.tier1) = <<95, 70>>
  /\ IdsInOrder(result.tier2) = <<"x1">>
  /\ PrioritiesInOrder(result.tier2) = <<50 + entries[3].injection.priority>>
  /\ HeadersOf(result.contextBlock) = <<"Characters", "Factions", "Lore">>

ResultAlone(es, outcome) ==
  IF Len(es) = 0 THEN EmptyResult
  ELSE LET t1 == getTier1Entries(es)
           remaining == RemainingEntries(es, t1)
       IN IF CallsBackend(config, provider, remaining) /\ outcome.kind = "content"
          THEN BuildResult(t1, ParseSelection(remaining, outcome.tokens,
                                              config.maxTier3Entries))
          ELSE BuildResult(t1, <<>>)

BothReturned == \A c \in CallIds : calls[c].pc = "done"

\* C13: of two getRelevantEntries calls on one instance that interleave at their
\* awaits, each returns the result the same call returns alone, and no step of
\* either call changes the config or the provider of the service.
C13_CallsIsolated ==
  /\ [](\A c \in CallIds :
         calls[c].pc = "done" =>
           calls[c].result = ResultAlone(calls[c].entries, calls[c].response))
  /\ [][config' = config /\ provider' = provider]_vars

\* both calls awaited their backend, on different entries, and both returned
C13_Witness ==
  /\ BothReturned
  /\ \A c \in CallIds : calls[c].response.kind = "content" /\ Len(calls[c].result.tier2) > 0
  /\ calls[1].entries # calls[2].entries
  /\ calls[1].result # calls[2].result


\* C17: a tier1 record of an 'always' entry whose state also satisfies a rule
\* carries the larger of 100 and the rule's weight, and the reason 'always inject'
\* (100 is the maximum, and the injection-mode reason wins the tie at 100).
C17_AlwaysReasonWinsTies ==
  Done =>
    \A j \in 1..Len(result.tier1) :
      LET rec == result.tier1[j]
          rule == ExpectedRule(rec.entry.state)
      IN (rec.entry.injection.mode = "always" /\ rule[1] > 0) =>
           /\ rec.priority = Max(100, rule[1])
           /\ rec.matchReason = "always inject"


ListedIds == [i \in 1..Len(prompt.entryList) |-> prompt.entryList[i].id]

\* C19: the candidate list handed to the selector, and the list of the prompt, is
\* the input entries that are not in tier1 and not 'never', in input order: every
\* 'auto' entry no rule matches is in it, no 'never' entry and no tier1 entry is.
C19_CandidatesListed ==
  (pc # "idle" /\ Len(entries) > 0) =>
    /\ remainingEntries = CandidatesOfCall
    /\ \A i \in 1..Len(entries) :
         LET listed == entries[i] \in Range(remainingEntries) IN
         /\ (entries[i].injection.mode = "auto" /\ ExpectedRule(entries[i].state)[1] = 0)
              => listed
         /\ entries[i].injection.mode = "never" => ~listed
         /\ entries[i].id \in IdsOf(tier1) => ~listed
    /\ requests > 0 => ListedIds = [i \in 1..Len(CandidatesOfCall) |-> CandidatesOfCall[i].id]

\* a request whose prompt lists the one candidate of a call that also passed a
\* 'never' entry
C19_Witness ==
  /\ requests = 1
  /\ Len(entries) = 2
  /\ entries[1].injection.mode = "never"
  /\ entries[1].state = NoState
  /\ entries[2].injection.mode = "auto"
  /\ ListedIds = <<entries[2].id>>


\* the ids of the first well-formed, non-empty JSON array of the response text,
\* wherever it stands; <<>> when the text has none
FirstArrayIds(tokens) ==
  LET arrays == SelectSeq(tokens, LAMBDA tok : tok.k = "array" /\ Len(tok.ids) > 0)
  IN IF Len(arrays) = 0 THEN <<>> ELSE arrays[1].ids

\* C20: when the response holds a well-formed JSON array of ids anywhere in its
\* text, also after bracketed fragments that are no arrays, tier2 is the
\* candidates that array names (cut to maxTier3Entries when that is positive).
C20_FirstArrayAnywhere ==
  (Done /\ HasContent /\ Len(FirstArrayIds(response.tokens)) > 0) =>
    EntriesOf(result.tier2) =
      ApplyMaxLimit(SelectSeq(remainingEntries,
                              LAMBDA e : e.id \in Range(FirstArrayIds(response.tokens))),
                    config.maxTier3Entries)


\* C21: when maxTier3Entries = N > 0 cuts the selection, tier2 is the first N
\* selected candidates in candidate-list order, whatever their priorities.
C21_TruncationKeepsEncounterOrder ==
  (Done /\ HasContent /\ config.maxTier3Entries > 0
        /\ Len(SelectedCandidates) > config.maxTier3Entries) =>
    EntriesOf(result.tier2) = SliceTo(SelectedCandidates, config.maxTier3Entries)

\* the limit dropped a selected candidate of higher priority than one it kept
C21_Witness ==
  /\ Done
  /\ HasContent
  /\ config.maxTier3Entries = 1
  /\ Len(SelectedCandidates) = 2
  /\ SelectedCandidates[2].injection.priority > SelectedCandidates[1].injection.priority
  /\ EntriesOf(result.tier2) = <<SelectedCandidates[1]>>


Tier2Shaped(reason) ==
  \A j \in 1..Len(result.tier2) :
    /\ result.tier2[j].tier = 2
    /\ result.tier2[j].priority = 50 + result.tier2[j].entry.injection.priority
    /\ result.tier2[j].matchReason = reason

\* C22 (as stated): every record of tier2 has tier 2, priority 50 + the entry's
\* injection priority, and match reason "selected".
C22_Tier2Records == Done => Tier2Shaped("selected")

\* C22 (amended): every record of tier2 has tier 2, priority 50 + the entry's
\* injection priority, and match reason "LLM selected".
C22_Tier2RecordsLLMSelected == Done => Tier2Shaped("LLM selected")

\* a selected candidate of injection priority 50 is in tier2 with priority 100
C22_Witness ==
  /\ Done
  /\ \E j \in 1..Len(result.tier2) :
       /\ result.tier2[j].entry.injection.priority = 50
       /\ result.tier2[j].priority = 100
       /\ result.tier2[j].matchReason = "LLM selected"


\* C23: with selection enabled, a provider, alwaysUseLLM true and at least one
\* candidate, a call makes exactly one backend request, whatever llmThreshold is,
\* and makes no second one after the first succeeds, is unparsable or fails.
C23_OneRequestPerCall ==
  /\ requests <= 1
  /\ (pc # "idle" /\ config.enableLLMSelection /\ provider /\ config.alwaysUseLLM
        /\ Len(CandidatesOfCall) > 0) => requests = 1

\* a call with fewer candidates than llmThreshold whose one request failed
C23_Witness ==
  /\ Done
  /\ config.alwaysUseLLM
  /\ Len(CandidatesOfCall) = 1
  /\ config.llmThreshold > 1
  /\ response = Rejected
  /\ requests = 1


\* C24: an entry whose state tag differs from its type is not made mandatory on
\* the strength of that state: unless its mode is 'always' it is not in tier1.
C24_MismatchedStateIgnored ==
  Done =>
    \A i \in 1..Len(entries) :
      (/\ entries[i].state # NoState
       /\ entries[i].state.type # entries[i].type
       /\ entries[i].injection.mode # "always") => entries[i].id \notin IdsOf(result.tier1)


C26_ScanOnlyWithoutArrayIds ==
  (Done /\ HasContent) =>
    IF FirstBracketIsNonEmptyArray(response.tokens)
    THEN IdsOf(result.tier2) \subseteq Range(response.tokens[JsonMatch(response.tokens)].ids)
    ELSE /\ IdsOf(result.tier2) \subseteq TaggedIds(response.tokens)
         /\ config.maxTier3Entries = 0 => EntriesOf(result.tier2) = TaggedCandidates

\* the response '[] ... ID:<candidate>' selects the candidate
C26_Witness ==
  /\ Done
  /\ HasContent
  /\ Len(response.tokens) = 2
  /\ response.tokens[1] = [k |-> "array", ids |-> <<>>]
  /\ response.tokens[2].k = "tag"
  /\ IdsOf(result.tier2) = {response.tokens[2].id}

\* the response that names each selected candidate once, in candidate order
NormalisedResponse ==
  LET named == Range(SelectedIds(response.tokens))
      ids == SelectSeq([i \in 1..Len(remainingEntries) |-> remainingEntries[i].id],
                       LAMBDA id : id \in named)
  IN <<[k |-> "array", ids |-> ids]>>

\* C27: a candidate is in tier2 at most once and tier2 is in candidate-list
\* order: a response repeating an id or naming ids in another order gives the
\* tier2 of the response naming each of them once in candidate order.
C27_Tier2OncePerCandidateInOrder ==
  (Done /\ HasContent) =>
    /\ \A i, j \in 1..Len(result.tier2) :
         i < j => PositionIn(remainingEntries, result.tier2[i].entry)
                    < PositionIn(remainingEntries, result.tier2[j].entry)
    /\ result.tier2 =
         ParseSelection(remainingEntries, NormalisedResponse, config.maxTier3Entries)

\* the response ["e2", "e1"] gives tier2 = [e1, e2]
C27_Witness ==
  /\ Done
  /\ HasContent
  /\ response.tokens = <<[k |-> "array", ids |-> <<"e2", "e1">>]>>
  /\ IdsInOrder(result.tier2) = <<"e1", "e2">>


EntryLinesOf(block) == {i \in 1..Len(block) : block[i].kind = "entry"}

LinesOf(block, id) == {i \in EntryLinesOf(block) : block[i].id = id}

\* the label of the subsection line i of the block stands in
SectionOfLine(block, i) ==
  LET hs == {h \in 1..i : block[h].kind = "header"}
      last == CHOOSE h \in hs : \A g \in hs : g <= h
  IN block[last].label

LabelOfType(type) == LabelledTypes[TypeRank(type)].label

\* C28: the block renders the retrieved set: each record of all has exactly one
\* entry line, in the subsection of its entry type; an entry that is not in all
\* has no line; the block has as many entry lines as all has records.
C28_BlockRendersAll ==
  Done =>
    LET block == result.contextBlock IN
    /\ Cardinality(EntryLinesOf(block)) = Len(result.all)
    /\ \A j \in 1..Len(result.all) :
         LET lines == LinesOf(block, result.all[j].entry.id) IN
         /\ Cardinality(lines) = 1
         /\ \A i \in lines :
              SectionOfLine(block, i) = LabelOfType(result.all[j].entry.type)
    /\ \A i \in 1..Len(entries) :
         entries[i].id \notin IdsOf(result.all) => LinesOf(block, entries[i].id) = {}

\* of two candidates of different types the backend selected the second: the
\* block has its line and none for the first
C28_Witness ==
  /\ Done
  /\ HasContent
  /\ Len(remainingEntries) = 2
  /\ remainingEntries[1].type # remainingEntries[2].type
  /\ IdsInOrder(result.all) = <<remainingEntries[2].id>>
  /\ Cardinality(EntryLinesOf(result.contextBlock)) = 1
  /\ LinesOf(result.contextBlock, remainingEntries[2].id) # {}


\* the ids of the entry lines of the subsection with the given label, in order
IdsUnder(block, label) ==
  LET lines == SelectSeq([i \in 1..Len(block) |-> i],
                         LAMBDA i : block[i].kind = "entry" /\ SectionOfLine(block, i) = label)
  IN [n \in 1..Len(lines) |-> block[lines[n]].id]

\* C29: within a subsection of the block the entries stand in the order of
\* tier1 ++ tier2 ++ tier3, not in the order of all: the tier-1 entries of the
\* type first, then the tier-2 ones, each tier in insertion order.
C29_SubsectionInTierOrder ==
  Done =>
    \A t \in 1..Len(LabelledTypes) :
      IdsUnder(result.contextBlock, LabelledTypes[t].label) =
        IdsInOrder(SelectSeq(TiersInOrder,
                             LAMBDA r : r.entry.type = LabelledTypes[t].type))

\* a selected character of priority 100 precedes the present character (95) in
\* all and follows it in the Characters subsection
C29_Witness ==
  /\ Done
  /\ HasContent
  /\ Len(result.tier1) = 1
  /\ Len(result.tier2) = 1
  /\ result.tier1[1].entry.type = result.tier2[1].entry.type
  /\ result.tier2[1].priority > result.tier1[1].priority
  /\ result.all = result.tier2 \o result.tier1
  /\ IdsUnder(result.contextBlock, LabelOfType(result.tier1[1].entry.type)) =
       <<result.tier1[1].entry.id, result.tier2[1].entry.id>>


RunInFlight == run.pc # "idle"

Resummarizing == run.pc \in {"resummarizing", "updating"}

\* C30: a run of handleCreateManualChapter or confirmResummarize that set
\* memoryLoading sets it back to false when the awaited creation,
\* resummarization or update resolves or rejects; such a run closes the
\* resummarize modal only when resummarization and update both resolved, and
\* leaves it open when either rejected.
C30_LoadingResetModalOnSuccess ==
  /\ ui.memoryLoading ~> ~ui.memoryLoading
  /\ [][(RunInFlight /\ ~RunInFlight') => ~ui'.memoryLoading]_vars
  /\ [][(Resummarizing /\ ui.resummarizeModalOpen /\ ~ui'.resummarizeModalOpen)
          => (run.pc = "updating" /\ run'.outcome = "resummarized")]_vars
  /\ [][(Resummarizing /\ run'.outcome \in {"failed", "update failed"})
          => ui'.resummarizeModalOpen]_vars

\* the chapter update failed after loading: loading is off and the modal is open
C30_Witness ==
  /\ run.outcome = "update failed"
  /\ ~ui.memoryLoading
  /\ ui.resummarizeModalOpen

====
